---- MODULE Spec2Model ----
(***************************************************************************)
(* Marketing spend audit and revenue reconciliation (src/src/audit_utils.py)*)
(*                                                                         *)
(* A DataFrame is a record [columns, rows]: the set of its column names    *)
(* and the sequence of its rows, each row a record keyed by column name.   *)
(* A datetime is a number of hours since the epoch (midnight of day d is   *)
(* 24*d).  A float is an exact fraction [num, den] in lowest terms with    *)
(* den > 0; den = 0 stands for the non-finite values (num = 1: inf,        *)
(* num = -1: -inf, num = 0: NaN).                                          *)
(***************************************************************************)
EXTENDS Integers, Sequences, FiniteSets, TLC

VARIABLES
    disk,          \* data/: file name -> [exists, columns, rows] of the CSV file
    pc,            \* "idle" (library use) or the position inside generate_reconciliation_report
    data,          \* load_all_data: the dataframes dict built so far
    df_mkt,        \* revenue_marketing table
    df_fin,        \* revenue_finance table
    df_spend,      \* marketing_spend table
    df_funnel,     \* funnel_events table
    roas_mkt,      \* last result of calculate_roas (marketing view)
    roas_fin,      \* last result of calculate_roas (finance view)
    cac_df,        \* last result of calculate_cac
    anomalies_df,  \* last result of detect_misreporting
    report,        \* value returned by generate_reconciliation_report
    exc,           \* exception that escaped the last call, or NONE
    returned,      \* names of the functions that have returned a result
    stdout         \* messages printed

vars == <<disk, pc, data, df_mkt, df_fin, df_spend, df_funnel,
          roas_mkt, roas_fin, cac_df, anomalies_df, report, exc, returned,
          stdout>>

NONE == "None"

----------------------------------------------------------------------------
(* Bounds of the model *)

MaxRows == 2
MaxSeries == 6

----------------------------------------------------------------------------
(* Generic helpers *)

Range(s) == {s[i] : i \in DOMAIN s}

\* the non-empty sequences over S of length at most n
NonEmptySeqs(S, n) == UNION {[1..k -> S] : k \in 1..n}

RECURSIVE SumSeq(_)
SumSeq(s) == IF s = <<>> THEN 0 ELSE Head(s) + SumSeq(Tail(s))

RECURSIVE Flatten(_)
Flatten(ss) == IF ss = <<>> THEN <<>> ELSE Head(ss) \o Flatten(Tail(ss))

RECURSIVE SortedSeq(_)
SortedSeq(S) ==
    IF S = {} THEN <<>>
    ELSE LET m == CHOOSE x \in S : \A y \in S : x <= y
         IN <<m>> \o SortedSeq(S \ {m})

Abs(x) == IF x < 0 THEN -x ELSE x

Sign(x) == IF x > 0 THEN 1 ELSE IF x < 0 THEN -1 ELSE 0

RECURSIVE GCD(_, _)
GCD(a, b) == IF b = 0 THEN a ELSE GCD(b, a % b)

----------------------------------------------------------------------------
(* Floating point values as exact fractions *)

NaN == [num |-> 0, den |-> 0]

\* numpy / pandas true division: x / 0 is inf, -inf or NaN, never an exception
Float(n, d) ==
    IF d = 0 THEN [num |-> Sign(n), den |-> 0]
    ELSE LET g == GCD(Abs(n), Abs(d))
         IN [num |-> (Sign(d) * n) \div g, den |-> Abs(d) \div g]

IsFinite(x) == x.den # 0

\* x > p/q for a finite x and q > 0; every comparison with NaN is False
FloatGT(x, p, q) ==
    IF x.den = 0 THEN x.num = 1
    ELSE x.num * q > p * x.den

----------------------------------------------------------------------------
(* Column names *)

SpendColumns == {"date", "campaign", "spend"}
FunnelColumns == {"timestamp", "user_id", "event_type"}
MktColumns == {"date", "campaign", "user_id", "revenue"}
FinColumns == {"date", "revenue"}

DataFrame(cols, rows) == [columns |-> cols, rows |-> rows]

Column(df, c) == [i \in DOMAIN df.rows |-> df.rows[i][c]]

----------------------------------------------------------------------------
(* pandas building blocks *)

\* df.groupby(key)[col].sum(): a Series indexed by the distinct keys
GroupBySum(df, key, col) ==
    [k \in {r[key] : r \in Range(df.rows)} |->
        SumSeq(Column(DataFrame(df.columns,
                                SelectSeq(df.rows, LAMBDA r : r[key] = k)), col))]

\* a / b on two Series: aligned on the union of the indexes, NaN where either
\* side has no entry
SeriesDiv(a, b) ==
    [k \in DOMAIN a \cup DOMAIN b |->
        IF k \in DOMAIN a /\ k \in DOMAIN b THEN Float(a[k], b[k]) ELSE NaN]

\* df_mkt.merge(df_fin, on='date', suffixes=('_mkt', '_fin')): inner join,
\* one row per matching pair, in the order of the left rows
MergeMktFin(mkt, fin) ==
    LET cols == (mkt.columns \ {"revenue"}) \cup {"revenue_mkt", "revenue_fin"}
    IN DataFrame(cols,
        Flatten([i \in DOMAIN mkt.rows |->
            LET m == mkt.rows[i]
                hits == SelectSeq(fin.rows, LAMBDA f : f.date = m.date)
            IN [j \in DOMAIN hits |->
                   [c \in cols |->
                       IF c = "revenue_mkt" THEN m.revenue
                       ELSE IF c = "revenue_fin" THEN hits[j].revenue
                       ELSE m[c]]]]))

\* Timestamp.dt.date followed by pd.to_datetime: midnight of the same day
TruncateToDate(ts) == (ts \div 24) * 24

RECURSIVE DropDuplicates(_)
\* rows with the repeats of an earlier row removed (first occurrence kept)
DropDuplicates(rows) ==
    IF rows = <<>> THEN <<>>
    ELSE LET init == DropDuplicates(SubSeq(rows, 1, Len(rows) - 1))
             last == rows[Len(rows)]
         IN IF last \in Range(init) THEN init ELSE Append(init, last)

----------------------------------------------------------------------------
(* calculate_roas *)

RoasRaises(mkt, fin, spend) ==
    \/ ~({"campaign", "spend"} \subseteq spend.columns)
    \/ ~({"campaign", "revenue", "date"} \subseteq mkt.columns)
    \/ ~({"date", "revenue"} \subseteq fin.columns)

SpendByChannel(spend) == GroupBySum(spend, "campaign", "spend")

MktRevenueByChannel(mkt) == GroupBySum(mkt, "campaign", "revenue")

FinRevenueByChannel(mkt, fin) == GroupBySum(MergeMktFin(mkt, fin), "campaign", "revenue_fin")

\* roas tables as campaign -> roas (the rows of the result, keyed by campaign)
RoasMkt(mkt, spend) == SeriesDiv(MktRevenueByChannel(mkt), SpendByChannel(spend))

RoasFin(mkt, fin, spend) == SeriesDiv(FinRevenueByChannel(mkt, fin), SpendByChannel(spend))

----------------------------------------------------------------------------
(* calculate_cac *)

\* KeyError at line 74 or 75, before df_funnel is written
CacRaisesEarly(spend, funnel) ==
    \/ ~({"date", "campaign"} \subseteq spend.columns)
    \/ ~("timestamp" \in funnel.columns)

\* KeyError at lines 79 to 82, after df_funnel is written
CacRaisesLate(spend, funnel) ==
    \/ ~({"event_type", "user_id"} \subseteq funnel.columns)
    \/ ~("spend" \in spend.columns)

\* df_funnel['date'] = ...: the assignment writes the column into the caller's table
FunnelWithDate(funnel) ==
    DataFrame(funnel.columns \cup {"date"},
        [i \in DOMAIN funnel.rows |->
            [c \in funnel.columns \cup {"date"} |->
                IF c = "date" THEN TruncateToDate(funnel.rows[i].timestamp)
                ELSE funnel.rows[i][c]]])

DailyCampaigns(spend) ==
    DropDuplicates([i \in DOMAIN spend.rows |->
        [date |-> spend.rows[i].date, campaign |-> spend.rows[i].campaign]])

\* pd.merge(df_funnel, daily_campaigns, on='date'): inner join
EventsWithCampaign(funnel, spend) ==
    LET dated == FunnelWithDate(funnel).rows
        daily == DailyCampaigns(spend)
    IN Flatten([i \in DOMAIN dated |->
           LET hits == SelectSeq(daily, LAMBDA d : d.date = dated[i].date)
           IN [j \in DOMAIN hits |->
                  [timestamp |-> dated[i].timestamp, user_id |-> dated[i].user_id,
                   event_type |-> dated[i].event_type, date |-> dated[i].date,
                   campaign |-> hits[j].campaign]]])

\* a left join in place of the inner one: every campaign of Spend gets a row,
\* with 0 customers where no checkout event matches
AcquisitionsOfEveryCampaign(funnel, spend) ==
    LET checkouts == SelectSeq(EventsWithCampaign(funnel, spend),
                               LAMBDA e : e.event_type = "checkout")
    IN [c \in {r.campaign : r \in Range(spend.rows)} |->
           Cardinality({e.user_id : e \in {x \in Range(checkouts) : x.campaign = c}})]

\* checkout events grouped by campaign, nunique(user_id)
Acquisitions(funnel, spend) ==
    LET checkouts == SelectSeq(EventsWithCampaign(funnel, spend),
                               LAMBDA e : e.event_type = "checkout")
    IN [c \in {e.campaign : e \in Range(checkouts)} |->
           Cardinality({e.user_id : e \in {x \in Range(checkouts) : x.campaign = c}})]

\* cac table as campaign -> [cac, customers]
CacTable(spend, funnel) ==
    LET acq == Acquisitions(funnel, spend)
        sbc == SpendByChannel(spend)
    IN [c \in DOMAIN acq \cap DOMAIN sbc |->
           [cac |-> Float(sbc[c], acq[c]), customers |-> acq[c]]]

----------------------------------------------------------------------------
(* detect_misreporting *)

DetectRaises(mkt, fin, spend) ==
    \/ ~({"date", "revenue"} \subseteq mkt.columns)
    \/ ~({"date", "revenue"} \subseteq fin.columns)
    \/ ~({"date", "spend"} \subseteq spend.columns)

\* the join taken inner: only the dates present in both revenue tables
RevenueCompInner(mkt, fin) ==
    LET mkt_rev_agg == GroupBySum(mkt, "date", "revenue")
        fin_rev_agg == GroupBySum(fin, "date", "revenue")
        dates == SortedSeq(DOMAIN mkt_rev_agg \cap DOMAIN fin_rev_agg)
    IN [i \in DOMAIN dates |->
           [date |-> dates[i],
            mkt_revenue |-> mkt_rev_agg[dates[i]],
            fin_revenue |-> fin_rev_agg[dates[i]]]]

\* pd.merge(mkt_rev_agg, fin_rev_agg, on='date', how='outer').fillna(0):
\* one row per date of either table, in ascending date order
RevenueComp(mkt, fin) ==
    LET mkt_rev_agg == GroupBySum(mkt, "date", "revenue")
        fin_rev_agg == GroupBySum(fin, "date", "revenue")
        dates == SortedSeq(DOMAIN mkt_rev_agg \cup DOMAIN fin_rev_agg)
    IN [i \in DOMAIN dates |->
           [date |-> dates[i],
            mkt_revenue |-> IF dates[i] \in DOMAIN mkt_rev_agg
                            THEN mkt_rev_agg[dates[i]] ELSE 0,
            fin_revenue |-> IF dates[i] \in DOMAIN fin_rev_agg
                            THEN fin_rev_agg[dates[i]] ELSE 0]]

Variance(row) == Float(row.mkt_revenue - row.fin_revenue, row.fin_revenue)

\* f"{variance:.2%}": the variance in hundredths of a percent, rounded
FormatPercent(v) == (2 * 10000 * v.num + v.den) \div (2 * v.den)

\* the threshold taken inclusively: variance >= 0.2
InflationFlaggedFromThreshold(row) ==
    row.fin_revenue > 0 /\ Variance(row).num * 5 >= Variance(row).den

InflationFlagged(row) == row.fin_revenue > 0 /\ FloatGT(Variance(row), 1, 5)

InflationSeverity(row) == IF FloatGT(Variance(row), 1, 2) THEN "Critical" ELSE "High"

InflationAnomalies(mkt, fin) ==
    LET inflated == SelectSeq(RevenueComp(mkt, fin), InflationFlagged)
    IN [i \in DOMAIN inflated |->
           [date |-> inflated[i].date, anomaly_type |-> "Revenue Inflation",
            details |-> <<"Variance", FormatPercent(Variance(inflated[i]))>>,
            severity |-> InflationSeverity(inflated[i])]]

MissingFlagged(row) == row.fin_revenue = 0 /\ row.mkt_revenue > 0

MissingAnomalies(mkt, fin) ==
    LET missing == SelectSeq(RevenueComp(mkt, fin), MissingFlagged)
    IN [i \in DOMAIN missing |->
           [date |-> missing[i].date, anomaly_type |-> "Missing Invoice",
            details |-> <<"Mkt Revenue", missing[i].mkt_revenue>>,
            severity |-> "High"]]

\* Series.std() divides the sum of squared deviations by n - StdDdof
StdDdof == 1

\* n * (sum of squared deviations from the mean) == n * sum(x^2) - sum(x)^2
ScaledSquaredDeviations(xs) ==
    Len(xs) * SumSeq([i \in DOMAIN xs |-> xs[i] * xs[i]]) - SumSeq(xs) * SumSeq(xs)

\* x > mean(xs) + 2 * std(xs, ddof), compared without taking the root:
\*   x - mean > 0  and  (x - mean)^2 > 4 * var,
\*   mean = S / n,  var = ssd / (n - ddof),  n * ssd = ScaledSquaredDeviations.
\* With n <= ddof the deviation is NaN and nothing compares greater.
ExceedsWithDdof(x, xs, ddof) ==
    LET n == Len(xs)
        d == n * x - SumSeq(xs)
    IN /\ n > ddof
       /\ d > 0
       /\ d * d * (n - ddof) > 4 * n * ScaledSquaredDeviations(xs)

\* the population deviation (ddof = 0) in place of pandas' default
ExceedsPopulationThreshold(x, xs) == ExceedsWithDdof(x, xs, 0)

\* row['spend'] > spend_mean + 2 * spend_std
ExceedsOutlierThreshold(x, xs) == ExceedsWithDdof(x, xs, StdDdof)

OutlierAnomalies(spend) ==
    LET xs == Column(spend, "spend")
        outliers == SelectSeq(spend.rows, LAMBDA r : ExceedsOutlierThreshold(r.spend, xs))
    IN [i \in DOMAIN outliers |->
           [date |-> outliers[i].date, anomaly_type |-> "Outlier Spend",
            details |-> <<"Spend", outliers[i].spend>>,
            severity |-> "High"]]

\* the list sorted by date at the end (a stable sort_values('date'))
AnomaliesSortedByDate(mkt, fin, spend) ==
    LET all == InflationAnomalies(mkt, fin) \o MissingAnomalies(mkt, fin)
                   \o OutlierAnomalies(spend)
        dates == SortedSeq({a.date : a \in Range(all)})
    IN Flatten([i \in DOMAIN dates |-> SelectSeq(all, LAMBDA a : a.date = dates[i])])

\* the anomalies list, appended to rule by rule
Anomalies(mkt, fin, spend) ==
    InflationAnomalies(mkt, fin) \o MissingAnomalies(mkt, fin) \o OutlierAnomalies(spend)

----------------------------------------------------------------------------
(* load_all_data *)

\* files_to_load, by the key each table gets in the dataframes dict
FilesToLoad == <<"marketing_spend", "funnel_events", "revenue_marketing", "revenue_finance">>

\* pd.to_datetime of a cell <<day, hour>> of the CSV text
ToDatetime(cell) == cell[1] * 24 + cell[2]

\* text that is no date (a cell that is not a <<day, hour>> pair): ValueError
Unparsable(cell) == Len(cell) # 2

\* 'date' in col or 'timestamp' in col
IsDateColumn(col) == col \in {"date", "timestamp"}

\* pd.to_datetime raises on the first cell it cannot parse
ReadCsvRaises(file) ==
    \E i \in DOMAIN file.rows, c \in file.columns :
        IsDateColumn(c) /\ Unparsable(file.rows[i][c])

\* pd.read_csv followed by the conversion of the date columns
ReadCsv(file) ==
    DataFrame(file.columns,
        [i \in DOMAIN file.rows |->
            [c \in file.columns |->
                IF IsDateColumn(c) THEN ToDatetime(file.rows[i][c]) ELSE file.rows[i][c]]])

----------------------------------------------------------------------------
(* generate_reconciliation_report *)

\* a handler for the missing file alone
CatchesFileNotFoundOnly(e) == e = "FileNotFoundError"

\* the exception classes the except clause of line 168 handles
Catches(e) == e \in {"FileNotFoundError", "ValueError", "KeyError", "ZeroDivisionError"}

\* the division of Python numbers: a zero divisor raises ZeroDivisionError
PythonDivRaises(n, d) == d = 0

\* total_fin_revenue / total_spend on numpy scalars: a zero divisor gives a
\* non-finite value, not a ZeroDivisionError
ScalarDivRaises(n, d) == FALSE

EmptyReport == <<>>

\* the except clause: log and return {} ; an exception it does not handle escapes
Handle(e, out) ==
    IF Catches(e)
    THEN /\ pc' = "returned"
         /\ report' = EmptyReport
         /\ exc' = NONE
         /\ stdout' = Append(out, "An error occurred during report generation")
    ELSE /\ pc' = "raised"
         /\ report' = report
         /\ exc' = e
         /\ stdout' = out

\* one iteration of the loop of load_all_data, then lines 140-143
LoadFile ==
    /\ pc = "load"
    /\ LET name == FilesToLoad[Cardinality(DOMAIN data) + 1]
       IN IF ~disk[name].exists
          THEN /\ Handle("FileNotFoundError", Append(stdout, "Error loading data"))
               /\ UNCHANGED <<disk, data, df_mkt, df_fin, df_spend, df_funnel,
                              roas_mkt, roas_fin, cac_df, anomalies_df, returned>>
          ELSE IF ReadCsvRaises(disk[name])
          THEN /\ Handle("ValueError", stdout)
               /\ UNCHANGED <<disk, data, df_mkt, df_fin, df_spend, df_funnel,
                              roas_mkt, roas_fin, cac_df, anomalies_df, returned>>
          ELSE LET loaded == data @@ (name :> ReadCsv(disk[name]))
               IN /\ data' = loaded
                  /\ IF Cardinality(DOMAIN loaded) = Len(FilesToLoad)
                     THEN /\ pc' = "roas"
                          /\ df_mkt' = loaded["revenue_marketing"]
                          /\ df_fin' = loaded["revenue_finance"]
                          /\ df_spend' = loaded["marketing_spend"]
                          /\ df_funnel' = loaded["funnel_events"]
                     ELSE /\ pc' = "load"
                          /\ UNCHANGED <<df_mkt, df_fin, df_spend, df_funnel>>
                  /\ UNCHANGED <<disk, roas_mkt, roas_fin, cac_df, anomalies_df,
                                 report, exc, returned, stdout>>

\* line 145
ReportRoas ==
    /\ pc = "roas"
    /\ IF RoasRaises(df_mkt, df_fin, df_spend)
       THEN /\ Handle("KeyError", stdout)
            /\ UNCHANGED <<roas_mkt, roas_fin>>
       ELSE /\ roas_mkt' = RoasMkt(df_mkt, df_spend)
            /\ roas_fin' = RoasFin(df_mkt, df_fin, df_spend)
            /\ pc' = "cac"
            /\ UNCHANGED <<report, exc, stdout>>
    /\ UNCHANGED <<disk, data, df_mkt, df_fin, df_spend, df_funnel, cac_df,
                   anomalies_df, returned>>

\* line 146
ReportCac ==
    /\ pc = "cac"
    /\ IF CacRaisesEarly(df_spend, df_funnel)
       THEN /\ Handle("KeyError", stdout)
            /\ UNCHANGED <<data, df_funnel, cac_df>>
       ELSE /\ df_funnel' = FunnelWithDate(df_funnel)
            \* df_funnel is the table held in the dataframes dict, not a copy
            /\ data' = [data EXCEPT !["funnel_events"] = FunnelWithDate(df_funnel)]
            /\ IF CacRaisesLate(df_spend, df_funnel)
               THEN /\ Handle("KeyError", stdout)
                    /\ UNCHANGED cac_df
               ELSE /\ cac_df' = CacTable(df_spend, df_funnel)
                    /\ pc' = "detect"
                    /\ UNCHANGED <<report, exc, stdout>>
    /\ UNCHANGED <<disk, df_mkt, df_fin, df_spend, roas_mkt, roas_fin,
                   anomalies_df, returned>>

\* line 147
ReportDetect ==
    /\ pc = "detect"
    /\ IF DetectRaises(df_mkt, df_fin, df_spend)
       THEN /\ Handle("KeyError", stdout)
            /\ UNCHANGED anomalies_df
       ELSE /\ anomalies_df' = Anomalies(df_mkt, df_fin, df_spend)
            /\ pc' = "summary"
            /\ UNCHANGED <<report, exc, stdout>>
    /\ UNCHANGED <<disk, data, df_mkt, df_fin, df_spend, df_funnel, roas_mkt,
                   roas_fin, cac_df, returned>>

\* lines 150-166
ReportSummary ==
    /\ pc = "summary"
    /\ LET total_spend == SumSeq(Column(df_spend, "spend"))
           total_fin_revenue == SumSeq(Column(df_fin, "revenue"))
       IN IF ScalarDivRaises(total_fin_revenue, total_spend)
          THEN Handle("ZeroDivisionError", stdout)
          ELSE /\ report' =
                    [executive_summary |->
                        [total_spend |-> total_spend,
                         total_finance_revenue |-> total_fin_revenue,
                         overall_finance_roas |-> Float(total_fin_revenue, total_spend),
                         total_anomalies_detected |-> Len(anomalies_df)],
                     roas_marketing |-> roas_mkt,
                     roas_finance |-> roas_fin,
                     cac_by_channel |-> cac_df,
                     detected_anomalies |-> anomalies_df]
               /\ pc' = "returned"
               /\ UNCHANGED <<exc, stdout>>
    /\ UNCHANGED <<disk, data, df_mkt, df_fin, df_spend, df_funnel, roas_mkt,
                   roas_fin, cac_df, anomalies_df, returned>>

----------------------------------------------------------------------------
(* The calculation functions called directly on in-memory tables *)

CalculateRoas ==
    /\ pc = "idle"
    /\ IF RoasRaises(df_mkt, df_fin, df_spend)
       THEN /\ exc' = "KeyError"
            /\ UNCHANGED <<roas_mkt, roas_fin, returned>>
       ELSE /\ roas_mkt' = RoasMkt(df_mkt, df_spend)
            /\ roas_fin' = RoasFin(df_mkt, df_fin, df_spend)
            /\ returned' = returned \cup {"calculate_roas"}
            /\ exc' = NONE
    /\ UNCHANGED <<disk, pc, data, df_mkt, df_fin, df_spend, df_funnel, cac_df,
                   anomalies_df, report, stdout>>

CalculateCac ==
    /\ pc = "idle"
    /\ IF CacRaisesEarly(df_spend, df_funnel)
       THEN /\ exc' = "KeyError"
            /\ UNCHANGED <<df_funnel, cac_df, returned>>
       ELSE /\ df_funnel' = FunnelWithDate(df_funnel)
            /\ IF CacRaisesLate(df_spend, df_funnel)
               THEN /\ exc' = "KeyError"
                    /\ UNCHANGED <<cac_df, returned>>
               ELSE /\ cac_df' = CacTable(df_spend, df_funnel)
                    /\ returned' = returned \cup {"calculate_cac"}
                    /\ exc' = NONE
    /\ UNCHANGED <<disk, pc, data, df_mkt, df_fin, df_spend, roas_mkt, roas_fin,
                   anomalies_df, report, stdout>>

DetectMisreporting ==
    /\ pc = "idle"
    /\ IF DetectRaises(df_mkt, df_fin, df_spend)
       THEN /\ exc' = "KeyError"
            /\ UNCHANGED <<anomalies_df, returned>>
       ELSE /\ anomalies_df' = Anomalies(df_mkt, df_fin, df_spend)
            /\ returned' = returned \cup {"detect_misreporting"}
            /\ exc' = NONE
    /\ UNCHANGED <<disk, pc, data, df_mkt, df_fin, df_spend, df_funnel, roas_mkt,
                   roas_fin, cac_df, report, stdout>>

----------------------------------------------------------------------------
(* Input domains *)

Midnight(day) == day * 24

\* the tables of one to n rows drawn from rowset
Tables(cols, rowset, n) == {DataFrame(cols, rows) : rows \in NonEmptySeqs(rowset, n)}

\* one spend row per day, campaigns alternating, with the given spend values
SpendSeries(xs) ==
    DataFrame(SpendColumns,
        [i \in DOMAIN xs |->
            [date |-> Midnight(i - 1),
             campaign |-> IF i % 2 = 1 THEN "A" ELSE "B",
             spend |-> xs[i]]])

\* spend rows on the given days, in the given order
SpendOnDays(xs, days) ==
    DataFrame(SpendColumns,
        [i \in DOMAIN xs |->
            [date |-> Midnight(days[i]), campaign |-> "A", spend |-> xs[i]]])

OneMktRow == DataFrame(MktColumns,
    <<[date |-> 0, campaign |-> "A", user_id |-> "U1", revenue |-> 500]>>)

OneFinRow == DataFrame(FinColumns, <<[date |-> 0, revenue |-> 200]>>)

OneSpendRow == DataFrame(SpendColumns, <<[date |-> 0, campaign |-> "A", spend |-> 100]>>)

OneFunnelRow == DataFrame(FunnelColumns,
    <<[timestamp |-> 9, user_id |-> "U1", event_type |-> "checkout"]>>)

NoDisk == [f \in Range(FilesToLoad) |-> [exists |-> FALSE, columns |-> {}, rows |-> <<>>]]

\* the state before any call, with the four tables given
Library(mkt, fin, spend, funnel) ==
    /\ disk = NoDisk
    /\ pc = "idle"
    /\ data = <<>>
    /\ df_mkt = mkt
    /\ df_fin = fin
    /\ df_spend = spend
    /\ df_funnel = funnel
    /\ roas_mkt = <<>>
    /\ roas_fin = <<>>
    /\ cac_df = <<>>
    /\ anomalies_df = <<>>
    /\ report = EmptyReport
    /\ exc = NONE
    /\ returned = {}
    /\ stdout = <<>>

Campaigns == {"A", "B"}

----------------------------------------------------------------------------
(* calculate_roas on bounded tables *)

RoasMktRows == [date : {0, 24}, campaign : Campaigns, user_id : {"U1"}, revenue : {3}]
RoasFinRows == [date : {0, 24}, revenue : {2}]
RoasSpendRows == [date : {0}, campaign : Campaigns, spend : {0, 2}]

InitRoas ==
    \E mkt \in Tables(MktColumns, RoasMktRows, MaxRows),
       fin \in Tables(FinColumns, RoasFinRows, MaxRows),
       spend \in Tables(SpendColumns, RoasSpendRows, MaxRows) :
        Library(mkt, fin, spend, OneFunnelRow)

SpecRoas == InitRoas /\ [][CalculateRoas]_vars

----------------------------------------------------------------------------
(* calculate_cac on bounded tables *)

CacSpendRows == [date : {0, 24}, campaign : Campaigns, spend : {0, 10}]
CacFunnelRows == [timestamp : {9, 33}, user_id : {"U1", "U2"}, event_type : {"checkout", "view"}]

InitCac ==
    \E spend \in Tables(SpendColumns, CacSpendRows, MaxRows),
       funnel \in Tables(FunnelColumns, CacFunnelRows, MaxRows) :
        Library(OneMktRow, OneFinRow, spend, funnel)

SpecCac == InitCac /\ [][CalculateCac]_vars

----------------------------------------------------------------------------
(* detect_misreporting on bounded revenue tables *)

DetectMktRows == [date : {0, 24}, campaign : {"A"}, user_id : {"U1"}, revenue : {0, 12, 15, 16}]
DetectFinRows == [date : {0, 24}, revenue : {0, 10}]

\* no outlier; one outlier on day 0; two outliers, the later day first
DetectSpendTables ==
    { OneSpendRow,
      SpendOnDays(<<1000, 0, 0, 0, 0, 0>>, <<0, 1, 2, 3, 4, 5>>),
      SpendOnDays(<<0, 0, 1000, 0, 0, 0, 0, 0, 1000, 0, 0>>,
                  <<2, 3, 1, 4, 5, 6, 7, 8, 0, 9, 10>>) }

InitDetect ==
    \E mkt \in Tables(MktColumns, DetectMktRows, MaxRows),
       fin \in Tables(FinColumns, DetectFinRows, MaxRows),
       spend \in DetectSpendTables :
        Library(mkt, fin, spend, OneFunnelRow)

SpecDetect == InitDetect /\ [][DetectMisreporting]_vars

----------------------------------------------------------------------------
(* detect_misreporting on bounded spend series *)

SpendValues == {0, 100, 300, 1000}

InitOutlier ==
    \E xs \in NonEmptySeqs(SpendValues, MaxSeries) :
        Library(OneMktRow, OneFinRow, SpendSeries(xs), OneFunnelRow)

SpecOutlier == InitOutlier /\ [][DetectMisreporting]_vars

----------------------------------------------------------------------------
(* the three calculation functions called in any order, any number of times *)

NextLibrary == CalculateRoas \/ CalculateCac \/ DetectMisreporting

SpecLibrary == InitCac /\ [][NextLibrary]_vars

----------------------------------------------------------------------------
(* generate_reconciliation_report over the files of data/ *)

CsvFile(cols, rows) == [exists |-> TRUE, columns |-> cols, rows |-> rows]

MissingFile == [exists |-> FALSE, columns |-> {}, rows |-> <<>>]

\* the file with one column left out
DropColumn(file, col) ==
    CsvFile(file.columns \ {col},
        [i \in DOMAIN file.rows |-> [c \in file.columns \ {col} |-> file.rows[i][c]]])

\* the file with text that is no date in its date columns
BadDates(file) ==
    CsvFile(file.columns,
        [i \in DOMAIN file.rows |->
            [c \in file.columns |-> IF IsDateColumn(c) THEN <<>> ELSE file.rows[i][c]]])

\* the file absent, or lacking one column, or with unparsable dates
Defective(file) ==
    {MissingFile, BadDates(file)} \cup {DropColumn(file, c) : c \in file.columns}

SpendCsvRows == [date : {<<0, 0>>}, campaign : Campaigns, spend : {0, 100}]

SpendCsv == CsvFile(SpendColumns, <<[date |-> <<0, 0>>, campaign |-> "A", spend |-> 100]>>)

FunnelCsv == CsvFile(FunnelColumns,
    <<[timestamp |-> <<0, 9>>, user_id |-> "U1", event_type |-> "checkout"]>>)

MktCsv == CsvFile(MktColumns,
    <<[date |-> <<0, 0>>, campaign |-> "A", user_id |-> "U1", revenue |-> 500]>>)

FinCsv(revenue) == CsvFile(FinColumns, <<[date |-> <<0, 0>>, revenue |-> revenue]>>)

SpendFiles ==
    {CsvFile(SpendColumns, rows) : rows \in NonEmptySeqs(SpendCsvRows, MaxRows)}
        \cup Defective(SpendCsv)

FunnelFiles == {FunnelCsv} \cup Defective(FunnelCsv)

MktFiles == {MktCsv} \cup Defective(MktCsv)

FinFiles == {FinCsv(0), FinCsv(200)} \cup Defective(FinCsv(200))

NoTable == DataFrame({}, <<>>)

InitReport ==
    /\ disk \in [marketing_spend : SpendFiles, funnel_events : FunnelFiles,
                 revenue_marketing : MktFiles, revenue_finance : FinFiles]
    /\ pc = "load"
    /\ data = <<>>
    /\ df_mkt = NoTable
    /\ df_fin = NoTable
    /\ df_spend = NoTable
    /\ df_funnel = NoTable
    /\ roas_mkt = <<>>
    /\ roas_fin = <<>>
    /\ cac_df = <<>>
    /\ anomalies_df = <<>>
    /\ report = EmptyReport
    /\ exc = NONE
    /\ returned = {}
    /\ stdout = <<>>

NextReport == LoadFile \/ ReportRoas \/ ReportCac \/ ReportDetect \/ ReportSummary

SpecReport == InitReport /\ [][NextReport]_vars

----------------------------------------------------------------------------
(* Properties: shared vocabulary *)

RECURSIVE SumAt(_, _, _)
\* the sum of column col over the rows with index in I
SumAt(rows, col, I) ==
    IF I = {} THEN 0
    ELSE LET i == CHOOSE j \in I : TRUE
         IN rows[i][col] + SumAt(rows, col, I \ {i})

RowsOf(df, key, k) == {i \in DOMAIN df.rows : df.rows[i][key] = k}

\* the float x is the quotient n / d (d = 0: the non-finite value of n's sign)
IsQuotient(x, n, d) ==
    IF d = 0 THEN x.den = 0 /\ x.num = Sign(n)
    ELSE x.den # 0 /\ x.num * d = x.den * n

TotalSpendOf(c) == SumAt(df_spend.rows, "spend", RowsOf(df_spend, "campaign", c))

MktRevenueOf(c) == SumAt(df_mkt.rows, "revenue", RowsOf(df_mkt, "campaign", c))

\* finance revenue over the pairs (marketing row of campaign c, finance row of the same date)
RECURSIVE PairSum(_)
PairSum(P) ==
    IF P = {} THEN 0
    ELSE LET p == CHOOSE q \in P : TRUE
         IN df_fin.rows[p[2]].revenue + PairSum(P \ {p})

FinRevenueOf(c) ==
    PairSum({p \in RowsOf(df_mkt, "campaign", c) \X DOMAIN df_fin.rows :
                df_mkt.rows[p[1]].date = df_fin.rows[p[2]].date})

----------------------------------------------------------------------------
(* calculate_roas *)

\* C1: every campaign with a Spend row and a non-zero total spend has a
\* roas_marketing entry equal to its summed marketing revenue over its summed spend.
C1_RoasMarketingIsRevenueOverSpend ==
    "calculate_roas" \in returned =>
        \A c \in Campaigns :
            (RowsOf(df_spend, "campaign", c) # {} /\ TotalSpendOf(c) # 0) =>
                /\ c \in DOMAIN roas_mkt
                /\ IsQuotient(roas_mkt[c], MktRevenueOf(c), TotalSpendOf(c))

\* what the code does for C1: the quotient only where the campaign also has a
\* Marketing Revenue row, NaN where it has none
C1_RoasMarketingWhereRevenueRows ==
    "calculate_roas" \in returned =>
        \A c \in Campaigns :
            RowsOf(df_spend, "campaign", c) # {} =>
                /\ c \in DOMAIN roas_mkt
                /\ IF RowsOf(df_mkt, "campaign", c) # {}
                   THEN IsQuotient(roas_mkt[c], MktRevenueOf(c), TotalSpendOf(c))
                   ELSE roas_mkt[c] = NaN

\* C2: roas_finance[c] is the finance revenue joined to campaign c on date over
\* the spend total of c, the same total that divides roas_marketing[c].
C2_RoasFinanceSharesDenominator ==
    "calculate_roas" \in returned =>
        \A c \in Campaigns :
            RowsOf(df_spend, "campaign", c) # {} =>
                /\ c \in DOMAIN roas_fin
                /\ IsQuotient(roas_fin[c], FinRevenueOf(c), TotalSpendOf(c))

\* what the code does for C2: the quotient where the join has a row of campaign c
C2_RoasFinanceWhereJoinedRows ==
    "calculate_roas" \in returned =>
        \A c \in Campaigns :
            RowsOf(df_spend, "campaign", c) # {} =>
                /\ c \in DOMAIN roas_fin
                /\ IF \E i \in RowsOf(df_mkt, "campaign", c), j \in DOMAIN df_fin.rows :
                         df_mkt.rows[i].date = df_fin.rows[j].date
                   THEN IsQuotient(roas_fin[c], FinRevenueOf(c), TotalSpendOf(c))
                   ELSE roas_fin[c] = NaN

----------------------------------------------------------------------------
(* calculate_cac *)

\* the distinct users with a checkout event on a day on which campaign c has a Spend row
CheckoutUsersOf(c) ==
    {df_funnel.rows[i].user_id : i \in
        {k \in DOMAIN df_funnel.rows :
            /\ df_funnel.rows[k].event_type = "checkout"
            /\ \E j \in RowsOf(df_spend, "campaign", c) :
                   /\ df_spend.rows[j].date <= df_funnel.rows[k].timestamp
                   /\ df_funnel.rows[k].timestamp < df_spend.rows[j].date + 24}}

----------------------------------------------------------------------------
(* detect_misreporting *)

AllDates ==
    {r.date : r \in Range(df_mkt.rows)} \cup {r.date : r \in Range(df_fin.rows)}
        \cup {r.date : r \in Range(df_spend.rows)}

\* the day's summed marketing revenue, and its summed finance revenue (0 without a row)
MktOn(d) == SumAt(df_mkt.rows, "revenue", RowsOf(df_mkt, "date", d))

FinOn(d) == SumAt(df_fin.rows, "revenue", RowsOf(df_fin, "date", d))

\* the positions of the anomalies of one type on one date
AnomaliesOn(type, d) ==
    {i \in DOMAIN anomalies_df :
        anomalies_df[i].anomaly_type = type /\ anomalies_df[i].date = d}

AnomaliesOfType(type) == {i \in DOMAIN anomalies_df : anomalies_df[i].anomaly_type = type}

\* C4: a Revenue Inflation anomaly for a date exactly when its finance revenue is
\* > 0 and (marketing - finance) / finance > 0.20; Critical when the variance is
\* > 0.50, High otherwise; never for a date whose finance revenue is 0 or missing.
C4_InflationThresholds ==
    "detect_misreporting" \in returned =>
        /\ \A i \in AnomaliesOfType("Revenue Inflation") : anomalies_df[i].date \in AllDates
        /\ \A d \in AllDates :
              LET m == MktOn(d)
                  f == FinOn(d)
              IN IF f > 0 /\ 5 * (m - f) > f
                 THEN /\ Cardinality(AnomaliesOn("Revenue Inflation", d)) = 1
                      /\ \A i \in AnomaliesOn("Revenue Inflation", d) :
                            anomalies_df[i].severity =
                                IF 2 * (m - f) > f THEN "Critical" ELSE "High"
                 ELSE AnomaliesOn("Revenue Inflation", d) = {}

\* one date with a variance of exactly 0.20 (not flagged) beside one with a
\* variance of exactly 0.50 (flagged High)
C4_Witness ==
    /\ "detect_misreporting" \in returned
    /\ \E d, e \in AllDates :
          /\ FinOn(d) > 0 /\ 5 * (MktOn(d) - FinOn(d)) = FinOn(d)
          /\ AnomaliesOn("Revenue Inflation", d) = {}
          /\ FinOn(e) > 0 /\ 2 * (MktOn(e) - FinOn(e)) = FinOn(e)
          /\ \E i \in AnomaliesOn("Revenue Inflation", e) : anomalies_df[i].severity = "High"

\* C5: a Missing Invoice anomaly for a date only when its finance revenue (0
\* without a finance row) is 0 and its marketing revenue is > 0; exactly one, of
\* severity High, per such date; no date has both a Missing Invoice and a
\* Revenue Inflation anomaly.
C5_MissingInvoice ==
    "detect_misreporting" \in returned =>
        /\ \A i \in AnomaliesOfType("Missing Invoice") :
              anomalies_df[i].date \in AllDates /\ anomalies_df[i].severity = "High"
        /\ \A d \in AllDates :
              /\ Cardinality(AnomaliesOn("Missing Invoice", d)) =
                    IF FinOn(d) = 0 /\ MktOn(d) > 0 THEN 1 ELSE 0
              /\ ~(AnomaliesOn("Missing Invoice", d) # {}
                      /\ AnomaliesOn("Revenue Inflation", d) # {})

\* a Missing Invoice on a date without any finance row, and one on a date whose
\* finance row has revenue 0
C5_Witness ==
    /\ "detect_misreporting" \in returned
    /\ \E d, e \in AllDates :
          /\ RowsOf(df_fin, "date", d) = {}
          /\ AnomaliesOn("Missing Invoice", d) # {}
          /\ RowsOf(df_fin, "date", e) # {}
          /\ AnomaliesOn("Missing Invoice", e) # {}

\* n times the deviation of spend row i from the mean of all spend rows
ScaledDeviation(i) ==
    Len(df_spend.rows) * df_spend.rows[i].spend
        - SumAt(df_spend.rows, "spend", DOMAIN df_spend.rows)

\* spend row i exceeds mean + 2 * sqrt(sum of squared deviations / divisor)
ExceedsTwoDeviations(i, divisor) ==
    /\ ScaledDeviation(i) > 0
    /\ ScaledDeviation(i) * ScaledDeviation(i) * divisor >
          4 * SumSeq([j \in DOMAIN df_spend.rows |-> ScaledDeviation(j) * ScaledDeviation(j)])

OutliersOfRow(i) ==
    {k \in AnomaliesOn("Outlier Spend", df_spend.rows[i].date) :
        anomalies_df[k].details = <<"Spend", df_spend.rows[i].spend>>}

\* C6 as stated: Outlier Spend exactly for the rows above mean + 2 * the population
\* deviation (divisor n) of all spend rows; none for [100, 100, 100, 100, 1000].
C6_OutlierPopulationDeviation ==
    "detect_misreporting" \in returned =>
        /\ \A i \in DOMAIN df_spend.rows :
              Cardinality(OutliersOfRow(i)) =
                  IF ExceedsTwoDeviations(i, Len(df_spend.rows)) THEN 1 ELSE 0
        /\ Column(df_spend, "spend") = <<100, 100, 100, 100, 1000>> =>
              AnomaliesOfType("Outlier Spend") = {}

\* C6 amended: Outlier Spend exactly for the rows above mean + 2 * the sample
\* deviation (divisor n - 1) of all spend rows, whatever their campaign; none for
\* [100, 100, 100, 100, 1000].
C6_OutlierSampleDeviation ==
    "detect_misreporting" \in returned =>
        /\ \A i \in DOMAIN df_spend.rows :
              Cardinality(OutliersOfRow(i)) =
                  IF ExceedsTwoDeviations(i, Len(df_spend.rows) - 1) THEN 1 ELSE 0
        /\ Column(df_spend, "spend") = <<100, 100, 100, 100, 1000>> =>
              AnomaliesOfType("Outlier Spend") = {}

\* a series with a flagged row
C6_Witness ==
    /\ "detect_misreporting" \in returned
    /\ \E i \in DOMAIN df_spend.rows :
          /\ ExceedsTwoDeviations(i, Len(df_spend.rows) - 1)
          /\ OutliersOfRow(i) # {}
          /\ \E j \in DOMAIN df_spend.rows :
                /\ df_spend.rows[j].campaign # df_spend.rows[i].campaign
                /\ df_spend.rows[j].spend # 0

AnomalyTypes == {"Revenue Inflation", "Missing Invoice", "Outlier Spend"}

\* the place of a rule family in the order of evaluation
RuleOrder(type) ==
    CASE type = "Revenue Inflation" -> 1
      [] type = "Missing Invoice" -> 2
      [] type = "Outlier Spend" -> 3

\* the spend row an Outlier Spend anomaly was made from
SpendRowOf(a) ==
    CHOOSE k \in DOMAIN df_spend.rows :
        df_spend.rows[k].date = a.date /\ a.details = <<"Spend", df_spend.rows[k].spend>>

\* C9: the anomalies are ordered by rule family (Revenue Inflation, then Missing
\* Invoice, then Outlier Spend), within a family by the row order of the table
\* scanned (the per-date revenue comparison, in date order; the Spend table), and
\* a date flagged by several rules has one anomaly per rule.
C9_AnomalyOrder ==
    "detect_misreporting" \in returned =>
        /\ \A i, j \in DOMAIN anomalies_df :
              i < j =>
                  /\ RuleOrder(anomalies_df[i].anomaly_type)
                        <= RuleOrder(anomalies_df[j].anomaly_type)
                  /\ (/\ anomalies_df[i].anomaly_type = anomalies_df[j].anomaly_type
                      /\ anomalies_df[i].anomaly_type # "Outlier Spend")
                        => anomalies_df[i].date < anomalies_df[j].date
                  /\ (/\ anomalies_df[i].anomaly_type = "Outlier Spend"
                      /\ anomalies_df[j].anomaly_type = "Outlier Spend")
                        => SpendRowOf(anomalies_df[i]) < SpendRowOf(anomalies_df[j])
        /\ \A d \in AllDates :
              Cardinality({i \in DOMAIN anomalies_df : anomalies_df[i].date = d}) =
                  (IF FinOn(d) > 0 /\ 5 * (MktOn(d) - FinOn(d)) > FinOn(d) THEN 1 ELSE 0)
                  + (IF FinOn(d) = 0 /\ MktOn(d) > 0 THEN 1 ELSE 0)
                  + Cardinality({k \in RowsOf(df_spend, "date", d) :
                                    ExceedsTwoDeviations(k, Len(df_spend.rows) - 1)})

\* all three families present, a date carrying a Revenue Inflation and an Outlier
\* Spend anomaly, and two Outlier Spend anomalies with the later date first
C9_Witness ==
    /\ "detect_misreporting" \in returned
    /\ AnomaliesOfType("Missing Invoice") # {}
    /\ \E d \in AllDates :
          AnomaliesOn("Revenue Inflation", d) # {} /\ AnomaliesOn("Outlier Spend", d) # {}
    /\ \E i, j \in AnomaliesOfType("Outlier Spend") :
          i < j /\ anomalies_df[i].date > anomalies_df[j].date

----------------------------------------------------------------------------
(* generate_reconciliation_report *)

\* the columns the calculations read from each table
ColumnsRead ==
    [marketing_spend |-> {"date", "campaign", "spend"},
     funnel_events |-> {"timestamp", "user_id", "event_type"},
     revenue_marketing |-> {"date", "campaign", "revenue"},
     revenue_finance |-> {"date", "revenue"}]

\* a file is absent, or holds a date that cannot be parsed, or lacks a column
\* that is read
InputFault ==
    \E name \in DOMAIN disk :
        \/ ~disk[name].exists
        \/ ~(ColumnsRead[name] \subseteq disk[name].columns)
        \/ \E r \in Range(disk[name].rows), c \in {"date", "timestamp"} \cap disk[name].columns :
               r[c] = <<>>

IsFullReport(r) ==
    /\ DOMAIN r = {"executive_summary", "roas_marketing", "roas_finance",
                   "cac_by_channel", "detected_anomalies"}
    /\ DOMAIN r.executive_summary = {"total_spend", "total_finance_revenue",
                                     "overall_finance_roas", "total_anomalies_detected"}

\* C7: no fault leaves generate_reconciliation_report; a failed load or
\* calculation gives the empty report; the result is empty or complete, never partial.
C7_FaultsGiveEmptyReport ==
    /\ pc # "raised"
    /\ exc = NONE
    /\ pc = "returned" =>
          /\ report = EmptyReport \/ IsFullReport(report)
          /\ InputFault => report = EmptyReport

\* every file was loaded and calculate_roas had returned when calculate_cac
\* failed: the report is empty
C7_Witness ==
    /\ pc = "returned"
    /\ DOMAIN data = Range(FilesToLoad)
    /\ roas_mkt # <<>>
    /\ report = EmptyReport

DiskTotal(name, col) == SumAt(disk[name].rows, col, DOMAIN disk[name].rows)

----------------------------------------------------------------------------
(* Frame of the calculation functions *)

\* C10: calculate_roas, calculate_cac and detect_misreporting leave the four
\* tables as they were, and a repeated call returns the same result.
C10_InputsUnchanged ==
    [][/\ df_mkt' = df_mkt
       /\ df_fin' = df_fin
       /\ df_spend' = df_spend
       /\ df_funnel' = df_funnel
       /\ "calculate_roas" \in returned => roas_mkt' = roas_mkt /\ roas_fin' = roas_fin
       /\ "calculate_cac" \in returned => cac_df' = cac_df
       /\ "detect_misreporting" \in returned => anomalies_df' = anomalies_df]_vars

\* what the code does for C10: only the Funnel Event table changes, by gaining
\* a date column; its other columns, the other tables and the results of
\* repeated calls stay the same
C10_OnlyFunnelGainsDate ==
    [][/\ df_mkt' = df_mkt
       /\ df_fin' = df_fin
       /\ df_spend' = df_spend
       /\ df_funnel'.columns \in {df_funnel.columns, df_funnel.columns \cup {"date"}}
       /\ \A i \in DOMAIN df_funnel.rows, c \in df_funnel.columns :
             df_funnel'.rows[i][c] = df_funnel.rows[i][c]
       /\ "calculate_roas" \in returned => roas_mkt' = roas_mkt /\ roas_fin' = roas_fin
       /\ "calculate_cac" \in returned => cac_df' = cac_df
       /\ "detect_misreporting" \in returned => anomalies_df' = anomalies_df]_vars

====
